---------------------------- MODULE Spec2Model ----------------------------
(***************************************************************************)
(* A model of the stockai-2api gateway (src/index.ts): one Bun.serve       *)
(* fetch handler that authenticates and routes a request, forwards a chat  *)
(* request to the upstream, and translates the upstream's SSE byte stream  *)
(* into OpenAI chat-completion chunks (streaming) or one aggregated        *)
(* message (non-streaming).                                                *)
(*                                                                         *)
(* Text is modelled character by character: a JS string is a sequence of   *)
(* one-character strings, an upstream chunk is a sequence of bytes.  An    *)
(* ASCII byte is written as its character; the two bytes of U+00E9 are     *)
(* ByteLead and ByteCont.                                                  *)
(***************************************************************************)
EXTENDS Integers, Sequences, FiniteSets, TLC

(***************************************************************************)
(* Characters and bytes                                                    *)
(***************************************************************************)
Q == "\""
NL == "\n"
CR == "\r"
SP == " "
ByteLead == "xC3"
ByteCont == "xA9"
CharEAcute == "U+00E9"
Replacement == "U+FFFD"

\* String.prototype.trim() strips these (the ones of the modelled alphabet).
TrimSet == {" ", "\t", "\n", "\r"}
\* JSON's insignificant whitespace.
JsonWs == {" ", "\t", "\n", "\r"}
Digits == <<"0", "1", "2", "3", "4", "5", "6", "7", "8", "9">>
DigitSet == {Digits[i] : i \in 1..10}

MinOf(S) == CHOOSE x \in S : \A y \in S : x <= y
MaxOf(S) == CHOOSE x \in S : \A y \in S : x >= y

(***************************************************************************)
(* TextDecoder.decode(value, {stream: true}): UTF-8, keeping an incomplete *)
(* multi-byte sequence for the next call; a malformed sequence decodes to  *)
(* U+FFFD.                                                                 *)
(***************************************************************************)
\* What the decoder emits for byte i of `bytes`.  The decoder holds a lead
\* byte until the next byte: with its continuation byte it is U+00E9; before
\* any other byte it is malformed (U+FFFD) and that byte is decoded afresh.
\* A continuation byte without a lead byte is malformed.
DecodeByte(pend, bytes, i) ==
  LET b == bytes[i]
      held == IF i = 1 THEN pend # <<>> ELSE bytes[i - 1] = ByteLead
      fresh == IF b = ByteLead THEN <<>>
               ELSE IF b = ByteCont THEN <<Replacement>>
               ELSE <<b>> IN
  IF held THEN (IF b = ByteCont THEN <<CharEAcute>> ELSE <<Replacement>> \o fresh)
  ELSE fresh

RECURSIVE DecodeRange(_, _, _, _)
DecodeRange(pend, bytes, lo, hi) ==
  IF lo > hi THEN <<>>
  ELSE IF lo = hi THEN DecodeByte(pend, bytes, lo)
  ELSE LET mid == (lo + hi) \div 2 IN
       DecodeRange(pend, bytes, lo, mid) \o DecodeRange(pend, bytes, mid + 1, hi)

DecodeStream(pend, bytes) ==
  [text |-> DecodeRange(pend, bytes, 1, Len(bytes)),
   pending |-> IF bytes = <<>> THEN pend
               ELSE IF bytes[Len(bytes)] = ByteLead THEN <<ByteLead>> ELSE <<>>]

(***************************************************************************)
(* String helpers: split('\n'), startsWith, slice(6), trim                 *)
(***************************************************************************)
RECURSIVE SplitNL(_)
SplitNL(s) ==
  LET nls == {i \in 1..Len(s) : s[i] = NL} IN
  IF nls = {} THEN <<s>>
  ELSE LET i == MinOf(nls) IN
       <<SubSeq(s, 1, i - 1)>> \o SplitNL(SubSeq(s, i + 1, Len(s)))

DataPrefix == <<"d", "a", "t", "a", ":", " ">>

StartsWith(s, p) == Len(s) >= Len(p) /\ SubSeq(s, 1, Len(p)) = p

Slice(s, n) == SubSeq(s, n + 1, Len(s))

Trim(s) ==
  LET keep == {i \in 1..Len(s) : s[i] \notin TrimSet} IN
  IF keep = {} THEN <<>> ELSE SubSeq(s, MinOf(keep), MaxOf(keep))

DoneSentinel == <<"[", "D", "O", "N", "E", "]">>

(***************************************************************************)
(* JSON values.  Every value is a record of one shape:                     *)
(*   k: "string" | "number" | "true" | "false" | "null" | "object" |       *)
(*      "array" | "undefined";  s: a string's characters;  n: a number;    *)
(*   m: an object's members <<[key, val], ...>> or an array's elements.    *)
(***************************************************************************)
VStr(s) == [k |-> "string", s |-> s, n |-> 0, m |-> <<>>]
VNum(n) == [k |-> "number", s |-> <<>>, n |-> n, m |-> <<>>]
VLit(k) == [k |-> k, s |-> <<>>, n |-> 0, m |-> <<>>]
VObj(m) == [k |-> "object", s |-> <<>>, n |-> 0, m |-> m]
VArr(m) == [k |-> "array", s |-> <<>>, n |-> 0, m |-> m]
Undefined == VLit("undefined")


(***************************************************************************)
(* JSON.parse, by recursive descent over the characters.  Modelled:        *)
(* objects, arrays, strings, integers, true, false, null and whitespace.   *)
(* The upstream alphabet of this model has no backslash, "." or exponent,  *)
(* so string escapes and fractional numbers are not modelled.              *)
(***************************************************************************)
ParseFail == [ok |-> FALSE, v |-> Undefined, i |-> 0]
ParseOk(v, i) == [ok |-> TRUE, v |-> v, i |-> i]

At(s, i) == IF i >= 1 /\ i <= Len(s) THEN s[i] ELSE "EOF"

SkipWs(s, i) ==
  LET rest == {j \in i..Len(s) : s[j] \notin JsonWs} IN
  IF rest = {} THEN Len(s) + 1 ELSE MinOf(rest)

\* Unescaped control characters end a JSON string with a SyntaxError.
StringForbidden == {"\t", "\n", "\r", "\\"}

ParseString(s, i) ==
  LET closes == {j \in (i + 1)..Len(s) : s[j] = Q} IN
  IF closes = {} THEN ParseFail
  ELSE LET j == MinOf(closes)
           body == SubSeq(s, i + 1, j - 1) IN
       IF \E x \in 1..Len(body) : body[x] \in StringForbidden THEN ParseFail
       ELSE ParseOk(VStr(body), j + 1)

DigitVal(c) == (CHOOSE i \in 1..10 : Digits[i] = c) - 1

RECURSIVE DigitsValue(_)
DigitsValue(ds) ==
  IF ds = <<>> THEN 0
  ELSE 10 * DigitsValue(SubSeq(ds, 1, Len(ds) - 1)) + DigitVal(ds[Len(ds)])

ParseNumber(s, i) ==
  LET neg == At(s, i) = "-"
      st == IF neg THEN i + 1 ELSE i
      nonDigits == {j \in st..Len(s) : s[j] \notin DigitSet}
      en == IF nonDigits = {} THEN Len(s) + 1 ELSE MinOf(nonDigits)
      digs == SubSeq(s, st, en - 1) IN
  IF digs = <<>> THEN ParseFail
  ELSE IF Len(digs) > 1 /\ digs[1] = "0" THEN ParseFail
  ELSE ParseOk(VNum(IF neg THEN 0 - DigitsValue(digs) ELSE DigitsValue(digs)), en)

WordTrue == <<"t", "r", "u", "e">>
WordFalse == <<"f", "a", "l", "s", "e">>
WordNull == <<"n", "u", "l", "l">>

ParseWord(s, i, w, v) ==
  IF i + Len(w) - 1 <= Len(s) /\ SubSeq(s, i, i + Len(w) - 1) = w
  THEN ParseOk(v, i + Len(w)) ELSE ParseFail

RECURSIVE ParseValue(_, _), ParseMembers(_, _, _), ParseElements(_, _, _)

\* The value that starts at s[i] (whitespace already skipped).
ParseValue(s, i) ==
  LET c == At(s, i) IN
  IF c = Q THEN ParseString(s, i)
  ELSE IF c = "{" THEN
    LET j == SkipWs(s, i + 1) IN
    IF At(s, j) = "}" THEN ParseOk(VObj(<<>>), j + 1) ELSE ParseMembers(s, i + 1, <<>>)
  ELSE IF c = "[" THEN
    LET j == SkipWs(s, i + 1) IN
    IF At(s, j) = "]" THEN ParseOk(VArr(<<>>), j + 1) ELSE ParseElements(s, i + 1, <<>>)
  ELSE IF c = "t" THEN ParseWord(s, i, WordTrue, VLit("true"))
  ELSE IF c = "f" THEN ParseWord(s, i, WordFalse, VLit("false"))
  ELSE IF c = "n" THEN ParseWord(s, i, WordNull, VLit("null"))
  ELSE IF c = "-" \/ c \in DigitSet THEN ParseNumber(s, i)
  ELSE ParseFail

\* The members of an object from s[i] on, after "{" or ",".
ParseMembers(s, i, acc) ==
  LET j == SkipWs(s, i) IN
  IF At(s, j) # Q THEN ParseFail
  ELSE LET key == ParseString(s, j) IN
  IF ~key.ok THEN ParseFail
  ELSE LET c == SkipWs(s, key.i) IN
  IF At(s, c) # ":" THEN ParseFail
  ELSE LET val == ParseValue(s, SkipWs(s, c + 1)) IN
  IF ~val.ok THEN ParseFail
  ELSE LET e == SkipWs(s, val.i)
           acc2 == Append(acc, [key |-> key.v.s, val |-> val.v]) IN
  IF At(s, e) = "," THEN ParseMembers(s, e + 1, acc2)
  ELSE IF At(s, e) = "}" THEN ParseOk(VObj(acc2), e + 1)
  ELSE ParseFail

\* The elements of an array from s[i] on, after "[" or ",".
ParseElements(s, i, acc) ==
  LET val == ParseValue(s, SkipWs(s, i)) IN
  IF ~val.ok THEN ParseFail
  ELSE LET e == SkipWs(s, val.i)
           acc2 == Append(acc, val.v) IN
  IF At(s, e) = "," THEN ParseElements(s, e + 1, acc2)
  ELSE IF At(s, e) = "]" THEN ParseOk(VArr(acc2), e + 1)
  ELSE ParseFail

\* JSON.parse(s): ok is FALSE where JSON.parse throws a SyntaxError.
JSONParse(s) ==
  LET r == ParseValue(s, SkipWs(s, 1)) IN
  IF r.ok /\ SkipWs(s, r.i) = Len(s) + 1
  THEN [ok |-> TRUE, v |-> r.v]
  ELSE [ok |-> FALSE, v |-> Undefined]

(***************************************************************************)
(* JavaScript semantics the handler relies on                              *)
(***************************************************************************)
\* v[key]: undefined for a primitive, an array, or an absent key; a repeated
\* key keeps its last value.  Reading a property of null throws (CanRead).
CanRead(v) == v.k \notin {"null", "undefined"}

Get(v, key) ==
  IF v.k # "object" THEN Undefined
  ELSE LET hits == {x \in 1..Len(v.m) : v.m[x].key = key} IN
       IF hits = {} THEN Undefined ELSE v.m[MaxOf(hits)].val

\* ToBoolean
Truthy(v) ==
  IF v.k = "string" THEN v.s # <<>>
  ELSE IF v.k = "number" THEN v.n # 0
  ELSE v.k \in {"true", "object", "array"}

\* v === (the string w)
StrictEqStr(v, w) == v.k = "string" /\ v.s = w

RECURSIVE NatToStr(_)
NatToStr(n) ==
  IF n < 10 THEN <<Digits[n + 1]>>
  ELSE NatToStr(n \div 10) \o <<Digits[(n % 10) + 1]>>

ObjectObject ==
  <<"[", "o", "b", "j", "e", "c", "t", " ", "O", "b", "j", "e", "c", "t", "]">>

\* ToString, as applied by `str += v`.
RECURSIVE ToStr(_), JoinElements(_)
ToStr(v) ==
  IF v.k = "string" THEN v.s
  ELSE IF v.k = "number"
       THEN IF v.n < 0 THEN <<"-">> \o NatToStr(0 - v.n) ELSE NatToStr(v.n)
  ELSE IF v.k = "true" THEN WordTrue
  ELSE IF v.k = "false" THEN WordFalse
  ELSE IF v.k = "null" THEN WordNull
  ELSE IF v.k = "object" THEN ObjectObject
  ELSE IF v.k = "array" THEN JoinElements(v.m)
  ELSE <<"u", "n", "d", "e", "f", "i", "n", "e", "d">>

\* Array.prototype.join(","): null and undefined elements join as "".
JoinElements(es) ==
  IF es = <<>> THEN <<>>
  ELSE LET h == IF Head(es).k \in {"null", "undefined"} THEN <<>> ELSE ToStr(Head(es)) IN
       IF Len(es) = 1 THEN h ELSE h \o <<",">> \o JoinElements(Tail(es))


(***************************************************************************)
(* The translation engine: framing, event extraction, classification       *)
(***************************************************************************)
WType == <<"t", "y", "p", "e">>
WDelta == <<"d", "e", "l", "t", "a">>
WTextDelta == <<"t", "e", "x", "t", "-", "d", "e", "l", "t", "a">>
WReasoningDelta ==
  <<"r", "e", "a", "s", "o", "n", "i", "n", "g", "-", "d", "e", "l", "t", "a">>

\* SplitBuffer that trims the fragment it carries over.
SplitBufferTrimmed(buf, pend, chunk) ==
  LET d == DecodeStream(pend, chunk)
      parts == SplitNL(buf \o d.text) IN
  [lines |-> SubSeq(parts, 1, Len(parts) - 1),
   buffer |-> Trim(parts[Len(parts)]),
   pending |-> d.pending]

\* SplitBuffer that hands the trailing fragment over as a line at once.
SplitBufferEager(buf, pend, chunk) ==
  LET d == DecodeStream(pend, chunk)
      parts == SplitNL(buf \o d.text) IN
  [lines |-> parts, buffer |-> <<>>, pending |-> d.pending]

\* SplitBuffer without the carry-over: the decoded chunk is split alone.
SplitBufferNoCarry(buf, pend, chunk) ==
  LET d == DecodeStream(pend, chunk)
      parts == SplitNL(d.text) IN
  [lines |-> SubSeq(parts, 1, Len(parts) - 1),
   buffer |-> parts[Len(parts)],
   pending |-> d.pending]

\* buffer += decoder.decode(value, {stream: true});
\* lines = buffer.split('\n'); buffer = lines.pop() || "";
SplitBuffer(buf, pend, chunk) ==
  LET d == DecodeStream(pend, chunk)
      parts == SplitNL(buf \o d.text) IN
  [lines |-> SubSeq(parts, 1, Len(parts) - 1),
   buffer |-> parts[Len(parts)],
   pending |-> d.pending]

\* const dataStr = line.slice(6).trim();
DataStr(line) == Trim(Slice(line, Len(DataPrefix)))

\* if (line.startsWith('data: ')) { if (!dataStr || dataStr === '[DONE]') continue; ...
HasPayload(line) ==
  /\ StartsWith(line, DataPrefix)
  /\ DataStr(line) # <<>>
  /\ DataStr(line) # DoneSentinel

NoEvent == [type |-> "none", content |-> Undefined]

\* parseUpstreamChunk without the test of `type` on the text branch.
parseUpstreamChunkAnyType(data) ==
  IF StrictEqStr(Get(data, WType), WReasoningDelta) /\ Truthy(Get(data, WDelta))
  THEN [type |-> "reasoning", content |-> Get(data, WDelta)]
  ELSE IF Truthy(Get(data, WDelta))
  THEN [type |-> "content", content |-> Get(data, WDelta)]
  ELSE NoEvent

parseUpstreamChunk(data) ==
  IF StrictEqStr(Get(data, WType), WReasoningDelta) /\ Truthy(Get(data, WDelta))
  THEN [type |-> "reasoning", content |-> Get(data, WDelta)]
  ELSE IF StrictEqStr(Get(data, WType), WTextDelta) /\ Truthy(Get(data, WDelta))
  THEN [type |-> "content", content |-> Get(data, WDelta)]
  ELSE NoEvent

\* What the try statement of one line leaves behind: the event parsed (or
\* NoEvent) and the exception that propagates out of it ("none": nothing).
Outcome(parsed, e) == [type |-> parsed.type, content |-> parsed.content, thrown |-> e]

\* A catch that rethrows what it caught.
CatchRethrow(e) == Outcome(NoEvent, e)

\* catch (e) { }
Catch(e) == Outcome(NoEvent, "none")

\* try { data = JSON.parse(dataStr); parsed = parseUpstreamChunk(data); ... }
\* catch (e) { }: JSON.parse throws a SyntaxError, reading `.type` of null
\* throws a TypeError.
Classify(dataStr) ==
  LET p == JSONParse(dataStr) IN
  IF ~p.ok THEN Catch("SyntaxError")
  ELSE IF ~CanRead(p.v) THEN Catch("TypeError")
  ELSE Outcome(parseUpstreamChunk(p.v), "none")

\* What one line of the upstream text yields.
EventOfLine(line) ==
  IF HasPayload(line) THEN Classify(DataStr(line)) ELSE Outcome(NoEvent, "none")

\* for (const line of lines): the outcome of every line, in order.
Events(lines) == [i \in 1..Len(lines) |-> EventOfLine(lines[i])]

\* The first line whose exception leaves the `for` loop (0: none does).
FirstEscaping(evs) ==
  LET esc == {i \in 1..Len(evs) : evs[i].thrown # "none"} IN
  IF esc = {} THEN 0 ELSE MinOf(esc)

(***************************************************************************)
(* Outbound SSE events (streaming).  One record shape for all of them:     *)
(*   t = "chunk": a chat.completion.chunk with its delta object (a         *)
(*       sequence of [key, val]) and finish_reason;                        *)
(*   t = "done": the literal `data: [DONE]`;                               *)
(*   t = "error": {error: {message, type}}.                                *)
(***************************************************************************)


Chunk(id, created, model, delta, finish) ==
  [t |-> "chunk", id |-> id, created |-> created, model |-> model,
   delta |-> delta, finish |-> finish, message |-> "", type |-> ""]

DoneEvent ==
  [t |-> "done", id |-> 0, created |-> 0, model |-> "",
   delta |-> <<>>, finish |-> "", message |-> "", type |-> ""]

ErrorEvent(message) ==
  [t |-> "error", id |-> 0, created |-> 0, model |-> "",
   delta |-> <<>>, finish |-> "", message |-> message, type |-> "stream_error"]

\* ChunkDelta that sets both keys, the other one to the empty text.
ChunkDeltaBothKeys(parsed) ==
  <<[key |-> "content",
     val |-> IF parsed.type = "content" THEN parsed.content ELSE VStr(<<>>)],
    [key |-> "reasoning_content",
     val |-> IF parsed.type = "reasoning" THEN parsed.content ELSE VStr(<<>>)]>>

\* chunkDelta = {}; content / reasoning_content set from parsed.type
ChunkDelta(parsed) ==
  (IF parsed.type = "content"
   THEN <<[key |-> "content", val |-> parsed.content]>> ELSE <<>>)
  \o (IF parsed.type = "reasoning"
      THEN <<[key |-> "reasoning_content", val |-> parsed.content]>> ELSE <<>>)

\* The chunks one parsed line enqueues (none or one).
EmitEvent(parsed, id, created, model) ==
  IF parsed.type = "none" THEN <<>>
  ELSE IF ChunkDelta(parsed) = <<>> THEN <<>>
  ELSE <<Chunk(id, created, model, ChunkDelta(parsed), "null")>>

RECURSIVE EmitEvents(_, _, _, _)
EmitEvents(evs, id, created, model) ==
  IF evs = <<>> THEN <<>>
  ELSE EmitEvent(Head(evs), id, created, model)
       \o EmitEvents(Tail(evs), id, created, model)

\* for (const line of lines) { ... controller.enqueue(...) }
EmitLines(lines, id, created, model) == EmitEvents(Events(lines), id, created, model)

\* Non-streaming: fullText += parsed.content / fullReasoning += parsed.content
AccumulateEvent(acc, parsed) ==
  [fullText |-> IF parsed.type = "content"
                THEN acc.fullText \o ToStr(parsed.content) ELSE acc.fullText,
   fullReasoning |-> IF parsed.type = "reasoning"
                     THEN acc.fullReasoning \o ToStr(parsed.content)
                     ELSE acc.fullReasoning]

RECURSIVE AccumulateEvents(_, _)
AccumulateEvents(acc, evs) ==
  IF evs = <<>> THEN acc
  ELSE AccumulateEvents(AccumulateEvent(acc, Head(evs)), Tail(evs))

\* for (const line of lines) { ... fullText += ... }
AccumulateLines(acc, lines) == AccumulateEvents(acc, Events(lines))

ThinkOpen == <<"<", "t", "h", "i", "n", "k", ">", "\n">>
ThinkClose == <<"\n", "<", "/", "t", "h", "i", "n", "k", ">", "\n", "\n">>

\* FinalContent that emits the delimiter block whether or not there is
\* reasoning.
FinalContentAlwaysWrapped(ft, fr) == ThinkOpen \o fr \o ThinkClose \o ft

\* finalContent = fullReasoning ? `<think>\n${fullReasoning}\n</think>\n\n${fullText}` : fullText
FinalContent(ft, fr) == IF fr # <<>> THEN ThinkOpen \o fr \o ThinkClose \o ft ELSE ft


(***************************************************************************)
(* Bounds of the model                                                     *)
(***************************************************************************)
\* Lines (or unterminated fragments) the upstream writes in one response.
MaxLines == 2
\* The upstream writes its next line once at most this many bytes are unread.
MaxWire == 2
\* A read returns 1..MaxChunk bytes, or everything that is unread.
MaxChunk == 3

(***************************************************************************)
(* The upstream's SSE text, as bytes                                       *)
(***************************************************************************)
JStr(w) == <<Q>> \o w \o <<Q>>
Member(key, val) == JStr(key) \o <<":">> \o val
TypeOnly(type) == <<"{">> \o Member(WType, JStr(type)) \o <<"}">>
TypeDelta(type, delta) ==
  <<"{">> \o Member(WType, JStr(type)) \o <<",">> \o Member(WDelta, delta) \o <<"}">>
DataLine(payload, eol) == DataPrefix \o payload \o eol

\* data: {"type":"text-delta","delta":"Hi"}
LContent == DataLine(TypeDelta(WTextDelta, JStr(<<"H", "i">>)), <<NL>>)
\* data: {"type":"reasoning-delta","delta":"<U+00E9>"} with a CRLF line end
LReasoning == DataLine(TypeDelta(WReasoningDelta, JStr(<<ByteLead, ByteCont>>)), <<CR, NL>>)
\* an empty line, the SSE event separator
LBlank == <<NL>>
\* data: {"type":"start","delta":"x"}
LUnknownType == DataLine(TypeDelta(<<"s", "t", "a", "r", "t">>, JStr(<<"x">>)), <<NL>>)
\* data: {"type":"text-delta","delta":""}
LEmptyDelta == DataLine(TypeDelta(WTextDelta, JStr(<<>>)), <<NL>>)
\* data: {"type":"text-delta"}
LMissingDelta == DataLine(TypeOnly(WTextDelta), <<NL>>)
\* data: [DONE]
LDone == DataLine(DoneSentinel, <<NL>>)
\* "data: " followed by a space only
LEmptyPayload == DataLine(<<SP>>, <<NL>>)
\* data:{"type":"text-delta","delta":"n"}   (no space after the colon)
LNoSpace == <<"d", "a", "t", "a", ":">> \o TypeDelta(WTextDelta, JStr(<<"n">>)) \o <<NL>>
\* data: {"type":"text-delta"     (truncated JSON)
LMalformed == DataLine(<<"{">> \o Member(WType, JStr(WTextDelta)), <<NL>>)
\* data: null
LNull == DataLine(WordNull, <<NL>>)
\* data: {"type":"text-delta","delta":5}
LNumberDelta == DataLine(TypeDelta(WTextDelta, <<"5">>), <<NL>>)
\* data: {"type":"text-delta","delta":{"a":1}}
LObjectDelta ==
  DataLine(TypeDelta(WTextDelta, <<"{">> \o Member(<<"a">>, <<"1">>) \o <<"}">>), <<NL>>)
\* data: {"type":"text-delta","delta":"z"} without a line end
LUnterminated == DataLine(TypeDelta(WTextDelta, JStr(<<"z">>)), <<>>)

BasicLines == {LContent, LReasoning, LBlank}

\* The repertoire of the upstream in each specification.
FramingLines == {LContent, LReasoning, LBlank, LDone, LNoSpace, LUnterminated}

FilterLines ==
  {LContent, LUnknownType, LEmptyDelta, LMissingDelta, LDone, LEmptyPayload, LNoSpace}

MalformedLines == {LContent, LReasoning, LMalformed, LNull, LBlank}

TypedLines == {LContent, LReasoning, LNumberDelta, LObjectDelta, LEmptyDelta}

(***************************************************************************)
(* Configuration and inbound requests                                      *)
(***************************************************************************)
DefaultKey == "sk-stockai-free"
SentinelKey == "1"
Keys == {DefaultKey, SentinelKey}

DefaultModel == "openai/gpt-4o-mini"
NumModels == 19

NoHeader == "null"
BearerOf(key) == "Bearer " \o key
Headers == {NoHeader, BearerOf(DefaultKey), DefaultKey}

Methods == {"OPTIONS", "GET", "POST"}
Paths == {"/v1/models", "/v1/chat/completions", "/v1/embeddings"}

\* A request body: json is FALSE for a body req.json() rejects; model "" and
\* stream "absent" are absent fields; a message with role "" has no role.
Body(json, model, stream, messages) ==
  [json |-> json, model |-> model, stream |-> stream, messages |-> messages]
UserMsg == [role |-> "user", content |-> "hi"]
NoRoleMsg == [role |-> "", content |-> "hi"]

BodyInvalid == Body(FALSE, "", "absent", <<>>)
BodyNoMessages == Body(TRUE, "", "true", <<>>)
BodyNoRole == Body(TRUE, "", "absent", <<NoRoleMsg>>)
BodyStream == Body(TRUE, "z-ai/glm-4.6", "true", <<UserMsg>>)
BodyPlain == Body(TRUE, "", "absent", <<NoRoleMsg, UserMsg>>)
\* "stream": "true" (a string): body.stream === true is false
BodyStreamString == Body(TRUE, "", "string", <<UserMsg>>)

Bodies == {BodyInvalid, BodyNoMessages, BodyNoRole, BodyStream, BodyPlain, BodyStreamString}

Requests == {1, 2}


(***************************************************************************)
(* State.  apiKey is the process configuration; every other variable is a  *)
(* function of the request it belongs to.                                  *)
(***************************************************************************)
VARIABLES
  apiKey,         \* API_MASTER_KEY
  method,         \* req.method
  path,           \* url.pathname
  authHeader,     \* req.headers.get('Authorization')
  body,           \* the request body
  pc,             \* "idle" | "received" | "fetching" | "reading" | "done"
  status,         \* HTTP status of the response, 0 while there is none
  response,       \* the response body (for a stream, its headers only)
  upstreamCalls,  \* how many times fetch(UPSTREAM.API_URL) was called
  payload,        \* the body of the upstream call
  timer,          \* "unset" | "armed" | "fired" | "cleared"
  aborted,        \* controller.signal.aborted
  stream,         \* body.stream === true
  model,          \* body.model || UPSTREAM.DEFAULT_MODEL
  requestId,      \* `chatcmpl-${generateRandomId()}`
  created,        \* Math.floor(Date.now() / 1000) at the upstream's response
  wire,           \* upstream bytes written and not yet read
  upSent,         \* how many lines the upstream has written
  upClosed,       \* the upstream has ended its body
  received,       \* every byte read so far (history)
  pending,        \* the TextDecoder's incomplete multi-byte sequence
  buffer,         \* the carry-over line buffer
  fullText,       \* non-streaming: accumulated content
  fullReasoning,  \* non-streaming: accumulated reasoning
  out,            \* streaming: the events enqueued on the outbound stream
  closeCount,     \* how many times controller.close() was called
  loopExit        \* how the read loop ended: "none" | "done" | "error"

reqVars == <<apiKey, method, path, authHeader, body>>
respVars == <<status, response>>
callVars == <<upstreamCalls, payload, timer, aborted>>
idVars == <<stream, model, requestId, created>>
upVars == <<wire, upSent, upClosed>>
readVars == <<received, pending, buffer, fullText, fullReasoning>>
outVars == <<out, closeCount, loopExit>>
vars == <<reqVars, pc, respVars, callVars, idVars, upVars, readVars, outVars>>

(***************************************************************************)
(* Responses                                                               *)
(***************************************************************************)
ZeroUsage == [prompt_tokens |-> 0, completion_tokens |-> 0, total_tokens |-> 0]

Resp(kind, message) ==
  [kind |-> kind, message |-> message, etype |-> "", content |-> <<>>,
   reasoning_content |-> <<>>, finish_reason |-> "", usage |-> ZeroUsage,
   id |-> "", created |-> 0, model |-> ""]

NoResponse == Resp("none", "")
\* new Response(null, { headers: CORS_HEADERS })
CorsResponse == Resp("cors", "")
\* { error: { message: "Unauthorized", code: 401 } }
UnauthorizedResponse == [Resp("error", "Unauthorized") EXCEPT !.etype = "code:401"]
\* { error: "Not Found" }
NotFoundResponse == Resp("error-string", "Not Found")
\* { error: { message: e.message, type: "internal_error" } }
InternalError(message) == [Resp("error", message) EXCEPT !.etype = "internal_error"]
\* { object: 'list', data: UPSTREAM.MODELS.map(...) }
ModelsResponse == Resp("models", "")
\* new Response(customStream, { headers: { 'Content-Type': 'text/event-stream' } })
EventStreamResponse == Resp("event-stream", "")
\* the chat.completion object of the non-stream handler
Completion(id, cr, mdl, ft, fr) ==
  [kind |-> "chat.completion", message |-> "", etype |-> "",
   content |-> FinalContent(ft, fr), reasoning_content |-> fr,
   finish_reason |-> "stop", usage |-> ZeroUsage,
   id |-> id, created |-> cr, model |-> mdl]

MsgInvalidJson == "Invalid JSON body"
MsgNoMessages == "No valid messages provided."
MsgTimeout == "Upstream Timeout (Thinking took too long)"
MsgFetchFailed == "fetch failed"
MsgUpstreamError == "Upstream Error (503): Service Unavailable"
MsgReadFailed == "The socket connection was closed unexpectedly"
MsgReadAborted == "The operation was aborted."
MsgLineFailed == "JSON Parse error: Unexpected EOF"

(***************************************************************************)
(* Bun.serve fetch: CORS preflight, authentication, routing                *)
(***************************************************************************)
\* Authorized comparing the header with the bare key, without "Bearer ".
AuthorizedBareKey(key, header) == ~(key # SentinelKey /\ header # key)

\* !(API_MASTER_KEY !== "1" && authHeader !== `Bearer ${API_MASTER_KEY}`)
Authorized(key, header) == ~(key # SentinelKey /\ header # BearerOf(key))

Route(key, m, p, h) ==
  IF m = "OPTIONS" THEN "options"
  ELSE IF ~Authorized(key, h) THEN "unauthorized"
  ELSE IF p = "/v1/models" THEN "models"
  ELSE IF p = "/v1/chat/completions" /\ m = "POST" THEN "chat"
  ELSE "notfound"

\* ValidMessages without the filter on `role`.
ValidMessagesUnfiltered(b) ==
  [i \in 1..Len(b.messages) |-> [role |-> b.messages[i].role, text |-> b.messages[i].content]]

\* messages.filter(m => m && m.role).map(...)
ValidMessages(b) ==
  LET kept == SelectSeq(b.messages, LAMBDA m : m.role # "") IN
  [i \in 1..Len(kept) |-> [role |-> kept[i].role, text |-> kept[i].content]]

\* handleChatCompletions up to the upstream call
ChatEntry(b) ==
  IF ~b.json THEN "invalid-json"
  ELSE IF Len(ValidMessages(b)) = 0 THEN "no-messages"
  ELSE "forward"

\* What the handler does with a request before any await on the upstream.
Decision(key, m, p, h, b) ==
  LET route == Route(key, m, p, h) IN
  IF route = "chat" THEN ChatEntry(b) ELSE route

EarlyStatus(d) ==
  IF d = "options" THEN 200
  ELSE IF d = "unauthorized" THEN 401
  ELSE IF d = "models" THEN 200
  ELSE IF d = "notfound" THEN 404
  ELSE 500

EarlyResponse(d) ==
  IF d = "options" THEN CorsResponse
  ELSE IF d = "unauthorized" THEN UnauthorizedResponse
  ELSE IF d = "models" THEN ModelsResponse
  ELSE IF d = "notfound" THEN NotFoundResponse
  ELSE IF d = "invalid-json" THEN InternalError(MsgInvalidJson)
  ELSE InternalError(MsgNoMessages)

NoPayload == [model |-> "", messages |-> <<>>]


(***************************************************************************)
(* Actions                                                                 *)
(***************************************************************************)
\* Bun.serve fetch(req), and handleChatCompletions up to `await fetch(...)`:
\* the request is answered at once, or the upstream call is issued with the
\* abort timer armed.
HandleRequest(r) ==
  /\ pc[r] = "received"
  /\ LET d == Decision(apiKey, method[r], path[r], authHeader[r], body[r])
         fwd == d = "forward" IN
     /\ pc' = [pc EXCEPT ![r] = IF fwd THEN "fetching" ELSE "done"]
     /\ status' = [status EXCEPT ![r] = IF fwd THEN 0 ELSE EarlyStatus(d)]
     /\ response' = [response EXCEPT ![r] = IF fwd THEN NoResponse ELSE EarlyResponse(d)]
     /\ upstreamCalls' = [upstreamCalls EXCEPT ![r] = IF fwd THEN @ + 1 ELSE @]
     /\ timer' = [timer EXCEPT ![r] = IF fwd THEN "armed" ELSE @]
     /\ stream' = [stream EXCEPT ![r] = IF fwd THEN body[r].stream = "true" ELSE @]
     /\ model' = [model EXCEPT ![r] =
                    IF fwd THEN (IF body[r].model # "" THEN body[r].model ELSE DefaultModel)
                    ELSE @]
     /\ payload' = [payload EXCEPT ![r] =
                      IF fwd
                      THEN [model |-> IF body[r].model # "" THEN body[r].model
                                      ELSE DefaultModel,
                            messages |-> ValidMessages(body[r])]
                      ELSE @]
  /\ UNCHANGED <<reqVars, aborted, requestId, created, upVars, readVars, outVars>>

\* setTimeout(() => controller.abort(), TIMEOUT_MS) expires.
TimerFire(r) ==
  /\ timer[r] = "armed"
  /\ timer' = [timer EXCEPT ![r] = "fired"]
  /\ aborted' = [aborted EXCEPT ![r] = TRUE]
  /\ UNCHANGED <<reqVars, pc, respVars, upstreamCalls, payload, idVars, upVars,
                 readVars, outVars>>

\* FetchReject that issues the upstream call once more before giving up.
FetchRejectRetry(r) ==
  /\ pc[r] = "fetching"
  /\ LET again == upstreamCalls[r] < 2 IN
     /\ pc' = [pc EXCEPT ![r] = IF again THEN "fetching" ELSE "done"]
     /\ upstreamCalls' = [upstreamCalls EXCEPT ![r] = IF again THEN @ + 1 ELSE @]
     /\ timer' = [timer EXCEPT ![r] = IF again THEN "armed" ELSE "cleared"]
     /\ aborted' = [aborted EXCEPT ![r] = IF again THEN FALSE ELSE @]
     /\ status' = [status EXCEPT ![r] = IF again THEN @ ELSE 500]
     /\ response' = [response EXCEPT ![r] =
                       IF again THEN @
                       ELSE InternalError(IF aborted[r] THEN MsgTimeout ELSE MsgFetchFailed)]
  /\ UNCHANGED <<reqVars, payload, idVars, upVars, readVars, outVars>>

\* `await fetch(...)` rejects: a connection failure, or the abort.  The
\* catch clears the timer and rethrows; Bun.serve's catch answers 500.
FetchReject(r) ==
  /\ pc[r] = "fetching"
  /\ pc' = [pc EXCEPT ![r] = "done"]
  /\ timer' = [timer EXCEPT ![r] = IF @ = "armed" THEN "cleared" ELSE @]
  /\ status' = [status EXCEPT ![r] = 500]
  /\ response' = [response EXCEPT ![r] =
                    InternalError(IF aborted[r] THEN MsgTimeout ELSE MsgFetchFailed)]
  /\ UNCHANGED <<reqVars, upstreamCalls, payload, aborted, idVars, upVars, readVars,
                 outVars>>

\* `await fetch(...)` resolves with the upstream's response headers; the
\* finally clears the timer.  A non-2xx response throws; otherwise the ids
\* are drawn and the stream or non-stream read loop starts.
FetchResolve(r, ok, id, now) ==
  /\ pc[r] = "fetching"
  /\ ~aborted[r]
  /\ timer' = [timer EXCEPT ![r] = "cleared"]
  /\ pc' = [pc EXCEPT ![r] = IF ok THEN "reading" ELSE "done"]
  /\ status' = [status EXCEPT ![r] = IF ~ok THEN 500 ELSE IF stream[r] THEN 200 ELSE @]
  /\ response' = [response EXCEPT ![r] =
                    IF ~ok THEN InternalError(MsgUpstreamError)
                    ELSE IF stream[r] THEN EventStreamResponse ELSE @]
  /\ requestId' = [requestId EXCEPT ![r] = IF ok THEN id ELSE @]
  /\ created' = [created EXCEPT ![r] = IF ok THEN now ELSE @]
  /\ UNCHANGED <<reqVars, upstreamCalls, payload, aborted, stream, model, upVars,
                 readVars, outVars>>

\* The upstream writes one more line of its SSE body.
UpstreamSend(r, line) ==
  /\ pc[r] = "reading"
  /\ ~upClosed[r]
  /\ upSent[r] < MaxLines
  /\ Len(wire[r]) <= MaxWire
  /\ wire' = [wire EXCEPT ![r] = @ \o line]
  /\ upSent' = [upSent EXCEPT ![r] = @ + 1]
  /\ UNCHANGED <<reqVars, pc, respVars, callVars, idVars, upClosed, readVars, outVars>>

\* The upstream ends its body.
UpstreamEnd(r) ==
  /\ pc[r] = "reading"
  /\ ~upClosed[r]
  /\ upClosed' = [upClosed EXCEPT ![r] = TRUE]
  /\ UNCHANGED <<reqVars, pc, respVars, callVars, idVars, wire, upSent, readVars,
                 outVars>>

ChunkSizes(w) == {n \in 1..Len(w) : n <= MaxChunk \/ n = Len(w)}

\* EndOfStream without the terminal chunk: only [DONE] is enqueued.
EndOfStreamDoneOnly(id, cr, mdl) == <<DoneEvent>>

\* The events enqueued after the loop: the terminal chunk and [DONE].
EndOfStream(id, cr, mdl) == <<Chunk(id, cr, mdl, <<>>, "stop"), DoneEvent>>

\* ErrorOfStream that enqueues [DONE] after the error event.
ErrorOfStreamThenDone(message) == <<ErrorEvent(message), DoneEvent>>

\* What the stream's catch enqueues.
ErrorOfStream(message) == <<ErrorEvent(message)>>

\* CloseCalls with controller.close() at the end of the try block instead of
\* the finally: the error path leaves the stream open.
CloseCallsTryOnly(exit) == IF exit = "done" THEN 1 ELSE 0

\* controller.close() in the finally of start()
CloseCalls(exit) == 1

\* ReadBytes with one carry-over buffer for the whole server instead of one
\* per request.
ReadBytesShared(r, n) ==
  /\ pc[r] = "reading"
  /\ \E sb \in {SplitBuffer(buffer[1], pending[r], SubSeq(wire[r], 1, n))} :
     \E evs \in {Events(sb.lines)} :
       LET esc == FirstEscaping(evs)
           ran == IF esc = 0 THEN evs ELSE SubSeq(evs, 1, esc - 1)
           acc == AccumulateEvents([fullText |-> fullText[r],
                                    fullReasoning |-> fullReasoning[r]], ran) IN
       /\ wire' = [wire EXCEPT ![r] = SubSeq(@, n + 1, Len(@))]
       /\ received' = [received EXCEPT ![r] = @ \o SubSeq(wire[r], 1, n)]
       /\ pending' = [pending EXCEPT ![r] = sb.pending]
       /\ buffer' = [q \in Requests |-> sb.buffer]
       /\ out' = [out EXCEPT ![r] =
                    IF stream[r]
                    THEN @ \o EmitEvents(ran, requestId[r], created[r], model[r])
                           \o (IF esc = 0 THEN <<>> ELSE ErrorOfStream(MsgLineFailed))
                    ELSE @]
       /\ fullText' = [fullText EXCEPT ![r] = IF stream[r] THEN @ ELSE acc.fullText]
       /\ fullReasoning' = [fullReasoning EXCEPT ![r] =
                              IF stream[r] THEN @ ELSE acc.fullReasoning]
       \* an exception leaving the `for` loop ends the read loop like a
       \* failed read: the stream's catch and finally, or Bun.serve's catch
       /\ pc' = [pc EXCEPT ![r] = IF esc = 0 THEN @ ELSE "done"]
       /\ loopExit' = [loopExit EXCEPT ![r] = IF esc = 0 THEN @ ELSE "error"]
       /\ closeCount' = [closeCount EXCEPT ![r] =
                           IF esc # 0 /\ stream[r] THEN @ + CloseCalls("error") ELSE @]
       /\ status' = [status EXCEPT ![r] = IF esc # 0 /\ ~stream[r] THEN 500 ELSE @]
       /\ response' = [response EXCEPT ![r] =
                         IF esc # 0 /\ ~stream[r]
                         THEN InternalError(MsgLineFailed) ELSE @]
  /\ UNCHANGED <<reqVars, callVars, idVars, upSent, upClosed>>

\* `await reader.read()` returns the next n bytes; the loop body frames them
\* and handles every completed line.
ReadBytes(r, n) ==
  /\ pc[r] = "reading"
  /\ \E sb \in {SplitBuffer(buffer[r], pending[r], SubSeq(wire[r], 1, n))} :
     \E evs \in {Events(sb.lines)} :
       LET esc == FirstEscaping(evs)
           ran == IF esc = 0 THEN evs ELSE SubSeq(evs, 1, esc - 1)
           acc == AccumulateEvents([fullText |-> fullText[r],
                                    fullReasoning |-> fullReasoning[r]], ran) IN
       /\ wire' = [wire EXCEPT ![r] = SubSeq(@, n + 1, Len(@))]
       /\ received' = [received EXCEPT ![r] = @ \o SubSeq(wire[r], 1, n)]
       /\ pending' = [pending EXCEPT ![r] = sb.pending]
       /\ buffer' = [buffer EXCEPT ![r] = sb.buffer]
       /\ out' = [out EXCEPT ![r] =
                    IF stream[r]
                    THEN @ \o EmitEvents(ran, requestId[r], created[r], model[r])
                           \o (IF esc = 0 THEN <<>> ELSE ErrorOfStream(MsgLineFailed))
                    ELSE @]
       /\ fullText' = [fullText EXCEPT ![r] = IF stream[r] THEN @ ELSE acc.fullText]
       /\ fullReasoning' = [fullReasoning EXCEPT ![r] =
                              IF stream[r] THEN @ ELSE acc.fullReasoning]
       \* an exception leaving the `for` loop ends the read loop like a
       \* failed read: the stream's catch and finally, or Bun.serve's catch
       /\ pc' = [pc EXCEPT ![r] = IF esc = 0 THEN @ ELSE "done"]
       /\ loopExit' = [loopExit EXCEPT ![r] = IF esc = 0 THEN @ ELSE "error"]
       /\ closeCount' = [closeCount EXCEPT ![r] =
                           IF esc # 0 /\ stream[r] THEN @ + CloseCalls("error") ELSE @]
       /\ status' = [status EXCEPT ![r] = IF esc # 0 /\ ~stream[r] THEN 500 ELSE @]
       /\ response' = [response EXCEPT ![r] =
                         IF esc # 0 /\ ~stream[r]
                         THEN InternalError(MsgLineFailed) ELSE @]
  /\ UNCHANGED <<reqVars, callVars, idVars, upSent, upClosed>>

ReadChunk(r) == \E n \in ChunkSizes(wire[r]) : ReadBytes(r, n)

\* `await reader.read()` returns done.  Streaming: the terminal chunk and
\* [DONE] are enqueued and the stream is closed.  Non-streaming: the
\* chat.completion object is the response.
ReadDone(r) ==
  /\ pc[r] = "reading"
  /\ upClosed[r]
  /\ wire[r] = <<>>
  /\ pc' = [pc EXCEPT ![r] = "done"]
  /\ loopExit' = [loopExit EXCEPT ![r] = "done"]
  /\ out' = [out EXCEPT ![r] =
               IF stream[r] THEN @ \o EndOfStream(requestId[r], created[r], model[r])
               ELSE @]
  /\ closeCount' = [closeCount EXCEPT ![r] = IF stream[r] THEN @ + CloseCalls("done") ELSE @]
  /\ status' = [status EXCEPT ![r] = 200]
  /\ response' = [response EXCEPT ![r] =
                    IF stream[r] THEN @
                    ELSE Completion(requestId[r], created[r], model[r],
                                    fullText[r], fullReasoning[r])]
  /\ UNCHANGED <<reqVars, callVars, idVars, upVars, readVars>>

\* ReadError whose non-streaming branch answers with what was accumulated
\* instead of rethrowing.
ReadErrorPartial(r) ==
  /\ pc[r] = "reading"
  /\ pc' = [pc EXCEPT ![r] = "done"]
  /\ loopExit' = [loopExit EXCEPT ![r] = "error"]
  /\ out' = [out EXCEPT ![r] =
               IF stream[r]
               THEN @ \o ErrorOfStream(IF aborted[r] THEN MsgReadAborted ELSE MsgReadFailed)
               ELSE @]
  /\ closeCount' = [closeCount EXCEPT ![r] = IF stream[r] THEN @ + CloseCalls("error") ELSE @]
  /\ status' = [status EXCEPT ![r] = 200]
  /\ response' = [response EXCEPT ![r] =
                    IF stream[r] THEN @
                    ELSE Completion(requestId[r], created[r], model[r],
                                    fullText[r], fullReasoning[r])]
  /\ UNCHANGED <<reqVars, callVars, idVars, upVars, readVars>>

\* `await reader.read()` rejects: the connection failed, or the signal was
\* aborted.  Streaming: the catch enqueues the error event and the finally
\* closes the stream.  Non-streaming: the error leaves handleChatCompletions
\* and Bun.serve's catch answers 500.
ReadError(r) ==
  /\ pc[r] = "reading"
  /\ pc' = [pc EXCEPT ![r] = "done"]
  /\ loopExit' = [loopExit EXCEPT ![r] = "error"]
  /\ out' = [out EXCEPT ![r] =
               IF stream[r]
               THEN @ \o ErrorOfStream(IF aborted[r] THEN MsgReadAborted ELSE MsgReadFailed)
               ELSE @]
  /\ closeCount' = [closeCount EXCEPT ![r] = IF stream[r] THEN @ + CloseCalls("error") ELSE @]
  /\ status' = [status EXCEPT ![r] = IF stream[r] THEN @ ELSE 500]
  /\ response' = [response EXCEPT ![r] =
                    IF stream[r] THEN @
                    ELSE InternalError(IF aborted[r] THEN MsgReadAborted
                                       ELSE MsgReadFailed)]
  /\ UNCHANGED <<reqVars, callVars, idVars, upVars, readVars>>

(***************************************************************************)
(* Initial states and specifications                                       *)
(***************************************************************************)
RequestIds == {"chatcmpl-Qx7Lm2Ab9Zk4Tr1W"}
Times == {1700000000}

\* The state of the variables the handler has not touched yet; request 1 is
\* in flight, the other request slots are idle.
FreshLocals ==
  /\ status = [r \in Requests |-> 0]
  /\ response = [r \in Requests |-> NoResponse]
  /\ upstreamCalls = [r \in Requests |-> 0]
  /\ payload = [r \in Requests |-> NoPayload]
  /\ timer = [r \in Requests |-> "unset"]
  /\ aborted = [r \in Requests |-> FALSE]
  /\ stream = [r \in Requests |-> FALSE]
  /\ model = [r \in Requests |-> ""]
  /\ requestId = [r \in Requests |-> ""]
  /\ created = [r \in Requests |-> 0]
  /\ wire = [r \in Requests |-> <<>>]
  /\ upSent = [r \in Requests |-> 0]
  /\ upClosed = [r \in Requests |-> FALSE]
  /\ received = [r \in Requests |-> <<>>]
  /\ pending = [r \in Requests |-> <<>>]
  /\ buffer = [r \in Requests |-> <<>>]
  /\ fullText = [r \in Requests |-> <<>>]
  /\ fullReasoning = [r \in Requests |-> <<>>]
  /\ out = [r \in Requests |-> <<>>]
  /\ closeCount = [r \in Requests |-> 0]
  /\ loopExit = [r \in Requests |-> "none"]

InitLocals ==
  /\ pc = [r \in Requests |-> IF r = 1 THEN "received" ELSE "idle"]
  /\ FreshLocals

IdleRequest(r) ==
  /\ method[r] = "GET" /\ path[r] = "/v1/models"
  /\ authHeader[r] = NoHeader /\ body[r] = BodyInvalid

\* Any configuration, any request.
Init ==
  /\ apiKey \in Keys
  /\ method \in [Requests -> Methods]
  /\ path \in [Requests -> Paths]
  /\ authHeader \in [Requests -> Headers]
  /\ body \in [Requests -> Bodies]
  /\ \A r \in Requests \ {1} : IdleRequest(r)
  /\ InitLocals

Next ==
  \E r \in Requests :
    \/ HandleRequest(r)
    \/ TimerFire(r)
    \/ FetchReject(r)
    \/ \E ok \in BOOLEAN, id \in RequestIds, now \in Times : FetchResolve(r, ok, id, now)
    \/ \E line \in BasicLines : UpstreamSend(r, line)
    \/ UpstreamEnd(r)
    \/ ReadChunk(r)
    \/ ReadDone(r)
    \/ ReadError(r)

Spec == Init /\ [][Next]_vars

\* An authorized chat request, streaming or not, to a healthy upstream that
\* may write any line of FramingLines.
InitFraming ==
  /\ apiKey = DefaultKey
  /\ method = [r \in Requests |-> IF r = 1 THEN "POST" ELSE "GET"]
  /\ path = [r \in Requests |-> IF r = 1 THEN "/v1/chat/completions" ELSE "/v1/models"]
  /\ authHeader = [r \in Requests |-> IF r = 1 THEN BearerOf(DefaultKey) ELSE NoHeader]
  /\ body \in [Requests -> {BodyStream, BodyPlain, BodyInvalid}]
  /\ body[1] # BodyInvalid
  /\ \A r \in Requests \ {1} : IdleRequest(r)
  /\ InitLocals

\* The steps of a chat request whose upstream writes lines of `lines`.
NextChat(lines) ==
  \E r \in Requests :
    \/ HandleRequest(r)
    \/ \E id \in RequestIds, now \in Times : FetchResolve(r, TRUE, id, now)
    \/ \E line \in lines : UpstreamSend(r, line)
    \/ UpstreamEnd(r)
    \/ ReadChunk(r)
    \/ ReadDone(r)

NextFraming == NextChat(FramingLines)
SpecFraming == InitFraming /\ [][NextFraming]_vars

NextFilter == NextChat(FilterLines)
SpecFilter == InitFraming /\ [][NextFilter]_vars

NextMalformed == NextChat(MalformedLines)
SpecMalformed == InitFraming /\ [][NextMalformed]_vars

NextTyped == NextChat(TypedLines)
SpecTyped == InitFraming /\ [][NextTyped]_vars

\* Two authorized chat requests in flight at once, streaming or not, each
\* with its own upstream response, its own id, and its own text; a read
\* returns a few bytes or all that has arrived.
TwoIds == <<"chatcmpl-Qx7Lm2Ab9Zk4Tr1W", "chatcmpl-h3Gf8Kp0Vn5Ys2Dc">>
TwoLines(r) == IF r = 1 THEN {LContent} ELSE {LReasoning}
TwoSizes(w) == {n \in ChunkSizes(w) : n = MaxChunk \/ n = Len(w)}

InitTwo ==
  /\ apiKey = DefaultKey
  /\ method = [r \in Requests |-> "POST"]
  /\ path = [r \in Requests |-> "/v1/chat/completions"]
  /\ authHeader = [r \in Requests |-> BearerOf(DefaultKey)]
  /\ body \in [Requests -> {BodyStream, BodyPlain}]
  /\ pc = [r \in Requests |-> "received"]
  /\ FreshLocals

NextTwo ==
  \E r \in Requests :
    \/ HandleRequest(r)
    \/ \E now \in Times : FetchResolve(r, TRUE, TwoIds[r], now)
    \/ \E line \in TwoLines(r) : UpstreamSend(r, line)
    \/ UpstreamEnd(r)
    \/ \E n \in TwoSizes(wire[r]) : ReadBytes(r, n)
    \/ ReadDone(r)

SpecTwo == InitTwo /\ [][NextTwo]_vars

\* The event loop runs what is ready: the handler, an expired timer, a read
\* whose bytes or end have arrived, and the rejection an abort causes.  The
\* upstream owes nothing: it may stop writing without ending its body.
Fairness ==
  \A r \in Requests :
    /\ WF_vars(HandleRequest(r))
    /\ WF_vars(TimerFire(r))
    /\ WF_vars(ReadChunk(r))
    /\ WF_vars(ReadDone(r))
    /\ WF_vars(aborted[r] /\ FetchReject(r))
    /\ WF_vars(aborted[r] /\ ReadError(r))

FairSpec == Init /\ [][Next]_vars /\ Fairness

(***************************************************************************)
(* Helpers of the properties                                               *)
(***************************************************************************)
\* The text read so far, framed as if it had arrived as one chunk.
Whole(r) == SplitBuffer(<<>>, <<>>, received[r])

IsDelta(e) == e.t = "chunk" /\ e.finish = "null"
IsTerminal(e) == e.t = "chunk" /\ e.finish = "stop"

\* The delta chunks of an outbound stream, in order.
DeltaChunks(o) == SelectSeq(o, IsDelta)

NoText == [fullText |-> <<>>, fullReasoning |-> <<>>]
Aggregate(r) == [fullText |-> fullText[r], fullReasoning |-> fullReasoning[r]]

InLoop(r) == pc[r] = "reading" \/ loopExit[r] # "none"

(***************************************************************************)
(* Properties                                                              *)
(***************************************************************************)
\* C1: framing is chunk-boundary-independent.  However the text read so far
\* was split into chunks, the carry-over buffer, the decoder state and the
\* classified events (the delta chunks of a stream, the aggregate texts of a
\* non-stream request) are those of the same text read as a single chunk.
C1_ChunkBoundaryIndependent ==
  \A r \in Requests :
    InLoop(r) =>
      LET w == Whole(r) IN
      /\ buffer[r] = w.buffer
      /\ pending[r] = w.pending
      /\ stream[r] =>
           DeltaChunks(out[r]) = EmitLines(w.lines, requestId[r], created[r], model[r])
      /\ ~stream[r] => Aggregate(r) = AccumulateLines(NoText, w.lines)

\* C1 witness: one event has been emitted and the last chunk ended inside
\* the JSON payload of the next line, between the two bytes of U+00E9.
C1_Witness ==
  \E r \in Requests :
    /\ stream[r] /\ pc[r] = "reading"
    /\ Len(out[r]) = 1
    /\ pending[r] = <<ByteLead>>
    /\ StartsWith(buffer[r], DataPrefix)

\* The text of the deltas under `key`, concatenated in emission order.
RECURSIVE ConcatDeltas(_, _)
ConcatDeltas(chunks, key) ==
  IF chunks = <<>> THEN <<>>
  ELSE LET d == Head(chunks).delta[1] IN
       (IF d.key = key THEN d.val.s ELSE <<>>) \o ConcatDeltas(Tail(chunks), key)

\* Every delta is a text (a JSON string).
AllText(chunks) == \A i \in 1..Len(chunks) : chunks[i].delta[1].val.k = "string"

\* C2: streaming and non-streaming are equivalent projections of one
\* upstream input.  After a normal end of the upstream, the content deltas of
\* the stream are texts whose concatenation is the non-streaming fullText of
\* the same input, and the reasoning_content deltas concatenate to
\* fullReasoning.  (Each run is compared with the other mode's handling of
\* the text it has read.)
C2_StreamEqualsAggregate ==
  \A r \in Requests :
    loopExit[r] = "done" =>
      LET w == Whole(r)
          deltas == IF stream[r] THEN DeltaChunks(out[r])
                    ELSE EmitLines(w.lines, requestId[r], created[r], model[r])
          agg == IF stream[r] THEN AccumulateLines(NoText, w.lines) ELSE Aggregate(r) IN
      /\ AllText(deltas)
      /\ ConcatDeltas(deltas, "content") = agg.fullText
      /\ ConcatDeltas(deltas, "reasoning_content") = agg.fullReasoning

\* C3: when the upstream signals completion, a stream gets exactly one
\* terminal chunk (empty delta, finish_reason "stop") after all its delta
\* chunks, then `data: [DONE]`, and is closed; before completion no chunk
\* with finish_reason "stop" and no [DONE] is enqueued.
C3_TerminalChunkThenDone ==
  \A r \in Requests :
    stream[r] =>
      LET o == out[r]
          n == Len(o) IN
      /\ loopExit[r] = "done" =>
           /\ n >= 2
           /\ o[n - 1] = Chunk(requestId[r], created[r], model[r], <<>>, "stop")
           /\ o[n] = DoneEvent
           /\ \A i \in 1..(n - 2) : IsDelta(o[i]) /\ o[i].delta # <<>>
           /\ closeCount[r] = 1
      /\ loopExit[r] # "done" =>
           \A i \in 1..n : ~IsTerminal(o[i]) /\ o[i].t # "done"

\* C3 witness: a stream that delivered two deltas and then ended normally.
C3_Witness ==
  \E r \in Requests :
    /\ stream[r] /\ loopExit[r] = "done"
    /\ Len(out[r]) = 4
    /\ IsDelta(out[r][1]) /\ IsDelta(out[r][2])

\* C4: a stream is closed exactly once on every path out of the read loop.
\* While the loop runs it is open; once the loop has exited, normally or by
\* a read failure, controller.close() has been called exactly once; after a
\* failure exactly one error event {error: {message, type: "stream_error"}}
\* was enqueued, as the last event before the close.
C4_ClosedExactlyOnce ==
  \A r \in Requests :
    stream[r] =>
      LET o == out[r]
          n == Len(o)
          errors == {i \in 1..n : o[i].t = "error"} IN
      /\ closeCount[r] <= 1
      /\ loopExit[r] = "none" => closeCount[r] = 0
      /\ loopExit[r] # "none" => closeCount[r] = 1 /\ pc[r] = "done"
      /\ loopExit[r] = "error" =>
           /\ errors = {n}
           /\ o[n].type = "stream_error"
           /\ o[n].message \in {MsgReadFailed, MsgReadAborted}
      /\ loopExit[r] # "error" => errors = {}

\* C4 witness: a read failed after a delta had been delivered.
C4_Witness ==
  \E r \in Requests :
    /\ stream[r] /\ loopExit[r] = "error"
    /\ Len(out[r]) = 2
    /\ IsDelta(out[r][1])
    /\ closeCount[r] = 1

\* C5: an upstream that stalls after the streaming response has begun does
\* not leave the connection unterminated: a stream whose read loop is
\* running is eventually closed, with an error event unless the upstream
\* ended its body.
C5_StalledStreamIsClosed ==
  \A r \in Requests :
    (stream[r] /\ pc[r] = "reading")
      ~> (closeCount[r] = 1 /\ (loopExit[r] = "error" \/ upClosed[r]))

\* C6: the timeout governs the connection as a whole: while the response
\* body is being read, in either mode, the abort timer set before the
\* upstream call is still armed (or has fired and aborted the transfer).
C6_TimerArmedWhileReading ==
  \A r \in Requests :
    pc[r] = "reading" => timer[r] \in {"armed", "fired"}

\* C7: authentication precedes all upstream work.  A non-OPTIONS request
\* whose Authorization header is missing or is not exactly "Bearer " + the
\* master key, the key not being the sentinel "1", never reaches the
\* upstream and is answered 401 {error: {message: "Unauthorized", code:
\* 401}}; with the sentinel key no request is answered 401.
C7_AuthBeforeUpstream ==
  \A r \in Requests :
    /\ (method[r] # "OPTIONS" /\ apiKey # "1" /\ authHeader[r] # "Bearer " \o apiKey) =>
         /\ upstreamCalls[r] = 0
         /\ pc[r] \in {"idle", "received", "done"}
         /\ pc[r] = "done" => status[r] = 401 /\ response[r] = UnauthorizedResponse
    /\ apiKey = "1" => status[r] # 401

\* C7 witness: a well-formed streaming chat request with the bare key as its
\* Authorization header has been answered 401.
C7_Witness ==
  \E r \in Requests :
    /\ apiKey = DefaultKey /\ authHeader[r] = DefaultKey
    /\ method[r] = "POST" /\ path[r] = "/v1/chat/completions" /\ body[r] = BodyStream
    /\ pc[r] = "done" /\ status[r] = 401 /\ upstreamCalls[r] = 0

\* A line the translation must ignore: not starting with `data: `, or with
\* an empty or [DONE] payload, or whose payload is a JSON object with a type
\* outside {reasoning-delta, text-delta} or with a missing or empty delta.
NonQualifying(line) ==
  \/ Len(line) < 6
  \/ SubSeq(line, 1, 6) # <<"d", "a", "t", "a", ":", " ">>
  \/ Trim(SubSeq(line, 7, Len(line))) \in {<<>>, <<"[", "D", "O", "N", "E", "]">>}
  \/ LET p == JSONParse(Trim(SubSeq(line, 7, Len(line)))) IN
     /\ p.ok /\ p.v.k = "object"
     /\ \/ \A x \in 1..Len(p.v.m) : p.v.m[x].key # WType
        \/ \E x \in 1..Len(p.v.m) :
             /\ p.v.m[x].key = WType
             /\ \A y \in (x + 1)..Len(p.v.m) : p.v.m[y].key # WType
             /\ p.v.m[x].val \notin {VStr(WTextDelta), VStr(WReasoningDelta)}
        \/ \A x \in 1..Len(p.v.m) : p.v.m[x].key # WDelta
        \/ \E x \in 1..Len(p.v.m) :
             /\ p.v.m[x].key = WDelta
             /\ \A y \in (x + 1)..Len(p.v.m) : p.v.m[y].key # WDelta
             /\ p.v.m[x].val = VStr(<<>>)

Qualifying(line) == ~NonQualifying(line)

\* C8: non-qualifying lines yield no event.  The delta chunks of a stream
\* are as many as the qualifying lines read, and equal what the qualifying
\* lines alone produce; the non-streaming texts are those of the qualifying
\* lines alone.  So a payload of another type, with an empty or missing
\* delta, a line without the exact `data: ` prefix, an empty payload and
\* [DONE] each produce no chunk and contribute no text.
C8_NonQualifyingYieldsNothing ==
  \A r \in Requests :
    InLoop(r) =>
      LET kept == SelectSeq(Whole(r).lines, Qualifying) IN
      /\ stream[r] =>
           /\ DeltaChunks(out[r]) = EmitLines(kept, requestId[r], created[r], model[r])
           /\ Len(DeltaChunks(out[r])) = Len(kept)
      /\ ~stream[r] => Aggregate(r) = AccumulateLines(NoText, kept)

\* C8 witness: a line of an unknown type and a qualifying line have both
\* been read in full by a stream, and exactly one delta chunk was enqueued.
C8_Witness ==
  \E r \in Requests :
    /\ stream[r] /\ InLoop(r)
    /\ Len(Whole(r).lines) = 2
    /\ \E i \in 1..2 : Whole(r).lines[i] = SubSeq(LUnknownType, 1, Len(LUnknownType) - 1)
    /\ \E i \in 1..2 : Whole(r).lines[i] = SubSeq(LContent, 1, Len(LContent) - 1)
    /\ Len(DeltaChunks(out[r])) = 1

\* A `data: ` line whose payload is not JSON, or is JSON for null.
Malformed(line) ==
  /\ ~NonQualifying(line)
  /\ LET p == JSONParse(Trim(SubSeq(line, 7, Len(line)))) IN
     ~p.ok \/ p.v = VLit("null")

WellFormed(line) == ~Malformed(line)
Valid(line) == Qualifying(line) /\ WellFormed(line)

\* C9: malformed payloads are skipped without ending the stream.  While and
\* after the body is read, no error event has been enqueued and the loop has
\* not failed; every valid line read has produced its delta chunk, the
\* chunks being those of the text with its malformed lines removed, in
\* order (non-streaming: the texts are those of that text); and the request
\* ends with status 200.
C9_MalformedSkipped ==
  \A r \in Requests :
    InLoop(r) =>
      LET lines == Whole(r).lines
          kept == SelectSeq(lines, WellFormed) IN
      /\ loopExit[r] # "error"
      /\ \A i \in 1..Len(out[r]) : out[r][i].t # "error"
      /\ pc[r] = "done" => status[r] = 200
      /\ stream[r] =>
           /\ DeltaChunks(out[r]) = EmitLines(kept, requestId[r], created[r], model[r])
           /\ Len(DeltaChunks(out[r])) = Len(SelectSeq(lines, Valid))
      /\ ~stream[r] =>
           /\ Aggregate(r) = AccumulateLines(NoText, kept)
           /\ pc[r] = "done" => response[r].kind = "chat.completion"

\* C9 witness: a stream whose upstream sent a truncated JSON payload and
\* then a valid text delta has ended normally with that delta enqueued.
C9_Witness ==
  \E r \in Requests :
    /\ stream[r] /\ loopExit[r] = "done"
    /\ Whole(r).lines = <<SubSeq(LMalformed, 1, Len(LMalformed) - 1),
                          SubSeq(LContent, 1, Len(LContent) - 1)>>
    /\ Len(DeltaChunks(out[r])) = 1
    /\ status[r] = 200

\* C10: the non-streaming final message.  After the upstream has ended, the
\* response is a chat.completion with status 200 whose content is the
\* accumulated content text C when the accumulated reasoning text R is
\* empty, and "<think>\n" + R + "\n</think>\n\n" + C otherwise; its
\* reasoning_content is R, its finish_reason "stop", and its usage is zero
\* prompt, completion and total tokens.
C10_FinalMessage ==
  \A r \in Requests :
    (~stream[r] /\ loopExit[r] = "done") =>
      LET acc == AccumulateLines(NoText, Whole(r).lines)
          R == acc.fullReasoning
          C == acc.fullText
          msg == response[r] IN
      /\ status[r] = 200
      /\ msg.kind = "chat.completion"
      /\ R = <<>> => msg.content = C
      /\ R # <<>> =>
           msg.content =
             <<"<", "t", "h", "i", "n", "k", ">", "\n">> \o R
             \o <<"\n", "<", "/", "t", "h", "i", "n", "k", ">", "\n", "\n">> \o C
      /\ msg.reasoning_content = R
      /\ msg.finish_reason = "stop"
      /\ msg.usage.prompt_tokens = 0
      /\ msg.usage.completion_tokens = 0
      /\ msg.usage.total_tokens = 0

\* C10 witness: a non-streaming request has ended with both reasoning and
\* content text accumulated.
C10_Witness ==
  \E r \in Requests :
    /\ ~stream[r] /\ loopExit[r] = "done"
    /\ fullReasoning[r] = <<CharEAcute>>
    /\ fullText[r] = <<"H", "i">>
    /\ Len(response[r].content) = 22

\* C11: non-streaming mode never returns partial content.  A non-streaming
\* request whose read of the upstream body failed is answered 500 with the
\* error envelope {error: {message, type: "internal_error"}} and no content,
\* whatever had been accumulated; and a non-streaming request is answered
\* with a chat.completion only after the upstream signalled completion.
C11_NoPartialContent ==
  \A r \in Requests :
    (pc[r] = "done" /\ upstreamCalls[r] = 1 /\ ~stream[r]) =>
      /\ loopExit[r] = "error" =>
           /\ status[r] = 500
           /\ response[r].kind = "error"
           /\ response[r].etype = "internal_error"
           /\ response[r].content = <<>>
           /\ response[r].reasoning_content = <<>>
      /\ (status[r] = 200 \/ response[r].kind = "chat.completion") =>
           /\ loopExit[r] = "done"
           /\ upClosed[r] /\ wire[r] = <<>>

\* C11 witness: a non-streaming request failed in the read loop after a text
\* delta had been accumulated.
C11_Witness ==
  \E r \in Requests :
    /\ ~stream[r] /\ loopExit[r] = "error"
    /\ fullText[r] = <<"H", "i">>
    /\ status[r] = 500

\* An authorized POST /v1/chat/completions.
IsChatRequest(r) ==
  /\ method[r] = "POST" /\ path[r] = "/v1/chat/completions"
  /\ (apiKey = "1" \/ authHeader[r] = "Bearer " \o apiKey)

\* C12: input validation happens before any upstream contact.  A chat
\* request whose body is not JSON is answered 500 "Invalid JSON body"; one
\* whose messages are missing, empty or all without a role is answered 500
\* "No valid messages provided."; neither makes an upstream call.  A request
\* that is forwarded carries exactly its messages that have a role, in
\* order.
C12_ValidationBeforeUpstream ==
  \A r \in Requests :
    IsChatRequest(r) =>
      LET b == body[r]
          roles == {i \in 1..Len(b.messages) : b.messages[i].role # ""} IN
      /\ (~b.json \/ roles = {}) =>
           /\ upstreamCalls[r] = 0
           /\ timer[r] = "unset"
           /\ pc[r] \in {"received", "done"}
           /\ pc[r] = "done" =>
                /\ status[r] = 500
                /\ response[r].kind = "error"
                /\ response[r].message =
                     IF ~b.json THEN "Invalid JSON body" ELSE "No valid messages provided."
      /\ (b.json /\ roles # {} /\ pc[r] # "received") =>
           /\ upstreamCalls[r] = 1
           /\ Len(payload[r].messages) = Cardinality(roles)
           /\ \A k \in 1..Len(payload[r].messages) :
                \E i \in roles :
                  /\ Cardinality({j \in roles : j <= i}) = k
                  /\ payload[r].messages[k].role = b.messages[i].role
                  /\ payload[r].messages[k].text = b.messages[i].content

\* C12 witness: a chat request whose only message has no role was answered
\* 500 without an upstream call.
C12_Witness ==
  \E r \in Requests :
    /\ IsChatRequest(r) /\ body[r] = BodyNoRole
    /\ pc[r] = "done" /\ status[r] = 500
    /\ response[r].message = "No valid messages provided."
    /\ upstreamCalls[r] = 0

\* C13: routing.  An authorized request that is not OPTIONS and whose
\* (method, path) is neither GET /v1/models nor POST /v1/chat/completions is
\* answered 404 {error: "Not Found"} and makes no upstream call.
C13_UnmatchedIsNotFound ==
  \A r \in Requests :
    ( /\ apiKey = "1" \/ authHeader[r] = "Bearer " \o apiKey
      /\ method[r] # "OPTIONS"
      /\ <<method[r], path[r]>> \notin {<<"GET", "/v1/models">>,
                                        <<"POST", "/v1/chat/completions">>}
      /\ pc[r] # "received" ) =>
        /\ pc[r] = "done"
        /\ status[r] = 404
        /\ response[r] = NotFoundResponse
        /\ upstreamCalls[r] = 0

IsEvent(e) == e.type # "none"

\* C14: in streaming mode each classified event produces exactly one
\* outbound chunk, in classification order, whose delta has the single key
\* reasoning_content (reasoning delta) or content (content delta) set to
\* the event's text, with finish_reason null; and every chunk of the
\* response, the terminal one included, carries the request id, the created
\* timestamp and the model name of the request.
C14_OneChunkPerEvent ==
  \A r \in Requests :
    (stream[r] /\ InLoop(r)) =>
      LET evs == SelectSeq(Events(Whole(r).lines), IsEvent)
          deltas == DeltaChunks(out[r]) IN
      /\ Len(deltas) = Len(evs)
      /\ \A i \in 1..Len(deltas) :
           /\ Len(deltas[i].delta) = 1
           /\ deltas[i].delta[1].key =
                (IF evs[i].type = "reasoning" THEN "reasoning_content" ELSE "content")
           /\ deltas[i].delta[1].val = evs[i].content
           /\ deltas[i].finish = "null"
      /\ requestId[r] # ""
      /\ model[r] = (IF body[r].model # "" THEN body[r].model ELSE "openai/gpt-4o-mini")
      /\ \A i \in 1..Len(out[r]) :
           out[r][i].t = "chunk" =>
             /\ out[r][i].id = requestId[r]
             /\ out[r][i].created = created[r]
             /\ out[r][i].model = model[r]

\* C14 witness: a finished stream of a reasoning delta followed by a content
\* delta, then the terminal chunk.
C14_Witness ==
  \E r \in Requests :
    /\ stream[r] /\ loopExit[r] = "done"
    /\ Len(out[r]) = 4
    /\ out[r][1].delta[1].key = "reasoning_content"
    /\ out[r][2].delta[1].key = "content"
    /\ IsTerminal(out[r][3])

\* The text decoded from everything read so far.
DecodedText(r) == DecodeStream(<<>>, received[r]).text

\* The lines of a text whose terminating newline is in the text, in order.
TerminatedLines(t) ==
  LET nls == {i \in 1..Len(t) : t[i] = "\n"}
      nth(k) == CHOOSE p \in nls : Cardinality({q \in nls : q <= p}) = k IN
  [k \in 1..Cardinality(nls) |->
     SubSeq(t, (IF k = 1 THEN 0 ELSE nth(k - 1)) + 1, nth(k) - 1)]

\* C15: no line is handled before its terminator has been read.  At every
\* step, and after the upstream has ended, the delta chunks (streaming) and
\* the accumulated texts (non-streaming) are exactly those of the lines that
\* are followed by a newline in the text received so far; an unterminated
\* trailing fragment contributes nothing, even when it is a complete
\* `data: {...}` event, and after a normal end only the terminal chunk and
\* [DONE] follow the delta chunks.
C15_OnlyTerminatedLines ==
  \A r \in Requests :
    InLoop(r) =>
      LET lines == TerminatedLines(DecodedText(r))
          deltas == EmitLines(lines, requestId[r], created[r], model[r]) IN
      /\ stream[r] =>
           /\ DeltaChunks(out[r]) = deltas
           /\ loopExit[r] = "done" => Len(out[r]) = Len(deltas) + 2
      /\ ~stream[r] =>
           /\ Aggregate(r) = AccumulateLines(NoText, lines)
           /\ loopExit[r] = "done" =>
                response[r].reasoning_content = AccumulateLines(NoText, lines).fullReasoning

\* C15 witness: the upstream of a stream ended after a complete text-delta
\* event without a final newline, and no delta chunk was enqueued.
C15_Witness ==
  \E r \in Requests :
    /\ stream[r] /\ loopExit[r] = "done"
    /\ received[r] = LUnterminated
    /\ buffer[r] = LUnterminated
    /\ EventOfLine(buffer[r]).type = "content"
    /\ out[r] = EndOfStream(requestId[r], created[r], model[r])

\* Every line followed by a newline, concatenated.
RECURSIVE JoinTerminated(_)
JoinTerminated(lines) ==
  IF lines = <<>> THEN <<>>
  ELSE Head(lines) \o <<"\n">> \o JoinTerminated(Tail(lines))

\* C16: the carry-over buffer invariant.  After each chunk, the carry-over
\* buffer holds no newline, and the lines extracted so far, each followed by
\* a newline, concatenated with the buffer are exactly the text decoded
\* from all chunks received so far: nothing is lost, duplicated or
\* reordered.
C16_CarryOverConserved ==
  \A r \in Requests :
    InLoop(r) =>
      LET t == DecodedText(r) IN
      /\ \A i \in 1..Len(buffer[r]) : buffer[r][i] # "\n"
      /\ JoinTerminated(TerminatedLines(t)) \o buffer[r] = t
      /\ JoinTerminated(Whole(r).lines) \o buffer[r] = t

\* C16 witness: one line has been extracted and the last chunk ended between
\* the carriage return and the newline of the next line.
C16_Witness ==
  \E r \in Requests :
    /\ pc[r] = "reading"
    /\ Len(TerminatedLines(DecodedText(r))) = 1
    /\ buffer[r] # <<>>
    /\ buffer[r][Len(buffer[r])] = "\r"

\* A `data: ` line whose payload is a JSON object with a `delta` that is
\* present and not a string.
NonStringDelta(line) ==
  /\ Len(line) >= 6
  /\ SubSeq(line, 1, 6) = <<"d", "a", "t", "a", ":", " ">>
  /\ LET p == JSONParse(Trim(SubSeq(line, 7, Len(line)))) IN
     /\ p.ok /\ p.v.k = "object"
     /\ \E x \in 1..Len(p.v.m) :
          /\ p.v.m[x].key = WDelta
          /\ \A y \in (x + 1)..Len(p.v.m) : p.v.m[y].key # WDelta
          /\ p.v.m[x].val.k # "string"

StringDeltaOrNone(line) == ~NonStringDelta(line)

\* C17: an event is produced only from a payload whose delta is a non-empty
\* string.  Every delta chunk of a stream carries a non-empty string, and
\* the chunks and the accumulated texts are those of the lines read without
\* the ones whose delta is present but not a string.
C17_OnlyStringDeltas ==
  \A r \in Requests :
    InLoop(r) =>
      LET kept == SelectSeq(Whole(r).lines, StringDeltaOrNone) IN
      /\ stream[r] =>
           /\ \A i \in 1..Len(out[r]) :
                IsDelta(out[r][i]) =>
                  /\ out[r][i].delta[1].val.k = "string"
                  /\ out[r][i].delta[1].val.s # <<>>
           /\ DeltaChunks(out[r]) = EmitLines(kept, requestId[r], created[r], model[r])
      /\ ~stream[r] => Aggregate(r) = AccumulateLines(NoText, kept)

\* C18: no retry.  A request makes at most one upstream call in its
\* lifetime.  When that call was rejected, timed out or answered non-2xx,
\* the request is answered 500 with the error envelope and a descriptive
\* message (the timeout message when the abort timer had fired), and no
\* outbound stream was started.
C18_NoRetry ==
  \A r \in Requests :
    /\ upstreamCalls[r] <= 1
    /\ pc[r] \in {"fetching", "reading"} => upstreamCalls[r] = 1
    /\ (pc[r] = "done" /\ upstreamCalls[r] >= 1 /\ loopExit[r] = "none") =>
         /\ status[r] = 500
         /\ response[r].kind = "error"
         /\ response[r].etype = "internal_error"
         /\ response[r].message \in
              {"Upstream Timeout (Thinking took too long)", MsgFetchFailed, MsgUpstreamError}
         /\ aborted[r] => response[r].message = "Upstream Timeout (Thinking took too long)"
         /\ out[r] = <<>> /\ closeCount[r] = 0
         /\ requestId[r] = ""

\* C18 witness: the abort timer fired while the upstream call was pending
\* and the request was answered 500 with the timeout message after its one
\* call.
C18_Witness ==
  \E r \in Requests :
    /\ pc[r] = "done" /\ aborted[r] /\ timer[r] = "fired"
    /\ upstreamCalls[r] = 1
    /\ status[r] = 500
    /\ response[r].message = "Upstream Timeout (Thinking took too long)"

\* C19: no cross-request interference.  With two requests in flight and
\* their upstream chunks arriving in any interleaving, each request's
\* carry-over buffer, decoder state, delta chunks or aggregate texts, ids
\* and close state are those of that request's own upstream text alone, and
\* its finished response is built from them only.
C19_NoCrossRequestInterference ==
  \A r \in Requests :
    InLoop(r) =>
      LET own == SplitBuffer(<<>>, <<>>, received[r])
          deltas == EmitLines(own.lines, TwoIds[r], created[r], model[r])
          agg == AccumulateLines(NoText, own.lines) IN
      /\ buffer[r] = own.buffer
      /\ pending[r] = own.pending
      /\ requestId[r] = TwoIds[r]
      /\ stream[r] =>
           /\ out[r] = deltas \o (IF loopExit[r] = "done"
                                  THEN <<Chunk(TwoIds[r], created[r], model[r], <<>>, "stop"),
                                         DoneEvent>>
                                  ELSE <<>>)
           /\ closeCount[r] = (IF loopExit[r] = "done" THEN 1 ELSE 0)
           /\ fullText[r] = <<>> /\ fullReasoning[r] = <<>>
      /\ ~stream[r] =>
           /\ out[r] = <<>> /\ closeCount[r] = 0
           /\ fullText[r] = agg.fullText
           /\ fullReasoning[r] = agg.fullReasoning
           /\ loopExit[r] = "done" =>
                response[r] = Completion(TwoIds[r], created[r], model[r],
                                         agg.fullText, agg.fullReasoning)

\* C19 witness: both requests are in their read loops, each holding an
\* unfinished line in its carry-over buffer, the first having already
\* emitted or accumulated one event.
C19_Witness ==
  /\ pc[1] = "reading" /\ pc[2] = "reading"
  /\ buffer[1] # <<>> /\ buffer[2] # <<>>
  /\ buffer[1] # buffer[2]
  /\ Len(Whole(1).lines) = 1
  /\ Len(out[1]) + Len(fullText[1]) > 0

\* C20: streaming outcomes are mutually exclusive and final.  In a stream,
\* the terminal chunk and [DONE] are present exactly when the upstream
\* completed normally, and are then the last two events; the stream_error
\* event is present exactly when the read loop failed, and is then the last
\* event, preceded only by the delta chunks already delivered and by no
\* finish_reason "stop" chunk; never both.
C20_ExclusiveOutcomes ==
  \A r \in Requests :
    stream[r] =>
      LET o == out[r]
          n == Len(o)
          dones == {i \in 1..n : o[i].t = "done"}
          stops == {i \in 1..n : o[i].t = "chunk" /\ o[i].finish = "stop"}
          errors == {i \in 1..n : o[i].t = "error"} IN
      /\ dones # {} <=> loopExit[r] = "done"
      /\ stops # {} <=> loopExit[r] = "done"
      /\ errors # {} <=> loopExit[r] = "error"
      /\ dones = {} \/ errors = {}
      /\ loopExit[r] = "done" =>
           /\ upClosed[r] /\ wire[r] = <<>>
           /\ stops = {n - 1} /\ dones = {n}
      /\ loopExit[r] = "error" =>
           /\ errors = {n}
           /\ o[n].type = "stream_error"
           /\ \A i \in 1..(n - 1) : o[i].t = "chunk" /\ o[i].finish = "null"
      /\ loopExit[r] # "none" => pc[r] = "done"

\* C20 witness: a stream failed after two delta chunks had been delivered.
C20_Witness ==
  \E r \in Requests :
    /\ stream[r] /\ loopExit[r] = "error"
    /\ Len(out[r]) = 3
    /\ IsDelta(out[r][1]) /\ IsDelta(out[r][2])
    /\ out[r][3].t = "error"

=============================================================================
